---- MODULE Spec2Model ----
(***************************************************************************)
(* Model of dohproxy: the blocklist policy server (dnsblockcheck.py), the  *)
(* DOH HTTP frontend (httpproxy.py) and the DNS wire helpers (utils.py).   *)
(*                                                                         *)
(* Strings are sequences of one-character strings, so that letter case,    *)
(* whitespace stripping and path splitting are computed, not assumed.      *)
(***************************************************************************)
EXTENDS Integers, Sequences, FiniteSets, TLC

VARIABLES
    \* ---- policy server process (dnsblockcheck.py) ----
    fs,          \* the blocklist directory: file -> [exists, mtime, lines, kind]
    blocklist,   \* module global blocklist (CIMultiDict): user key -> list of lines
    fileslist,   \* module global fileslist (CIMultiDict): file key -> mtime
    srv_pc,      \* main thread: "starting" | "serving" | "stopped" (shut down by an
                 \* interrupt) | "crashed" (ended by an exception nothing caught)
    rl_pc,       \* read_on_signal: "idle" | "walking"
    rl_todo,     \* files of the os.walk listing not yet visited
    newfileslist,\* local of read_on_signal
    conn,        \* per connection thread: [open, nread, nsent]
    pending,     \* per connection thread: the lookup it is in the middle of
    \* ---- observation of the policy server (not program state) ----
    lastreq,     \* the last buffer a connection thread read, and what it did with it
    lastRead,    \* file -> mtime the file had when it was last opened and read (0: never)
    due,         \* files that had changed since they were last read when the
                 \* running/last reload began, and were not written since
    missing,     \* files that had been loaded and were gone from the directory
                 \* when the running/last reload began, and were not written since
    didOpen,     \* whether the last step of read_on_signal opened its file
    nwrites,     \* number of file writes so far
    nreloads,    \* number of reload signals so far
    \* ---- DOH frontend process (httpproxy.py) ----
    debug,       \* DOHApplication.debug (--debug)
    time_stamp,  \* DOHApplication.time_stamp: the request whose start time it holds
    req,         \* per HTTP request: handler position, locals and response
    policy_silent, \* environment: the policy server takes connections and never replies
    \* ---- a DNS-over-TCP connection fed to utils.handle_dns_tcp_data ----
    tcp_msgs,      \* the messages the peer sends, in order
    tcp_stream,    \* the bytes of their frames not yet received
    tcp_fed,       \* the bytes received so far
    tcp_buf,       \* the remainder the caller keeps between reads
    tcp_delivered, \* the messages handed to the callback so far
    \* ---- one use of the base64url codec (utils.doh_b64_encode / doh_b64_decode) ----
    b64_pc,      \* "idle" | "start" | "encoded" | "decoded"
    b64_q,       \* the byte string to encode
    b64_s,       \* doh_b64_encode(b64_q)
    b64_out,     \* doh_b64_decode(b64_s): [err, bytes]
    \* ---- a DNS query given to utils.set_dns_ecs ----
    ecs_pc,      \* "idle" | "ready"
    ecs_ip,      \* the client address: [version, groups]
    ecs_options, \* dnsq.options
    ecs_calls    \* observation: per call, the options before it and what it returned

srvvars == <<fs, blocklist, fileslist, srv_pc, rl_pc, rl_todo, newfileslist, conn, pending,
             lastreq, lastRead, due, missing, didOpen, nwrites, nreloads>>

dohvars == <<debug, time_stamp, req, policy_silent>>

tcpvars == <<tcp_msgs, tcp_stream, tcp_fed, tcp_buf, tcp_delivered>>

b64vars == <<b64_pc, b64_q, b64_s, b64_out>>

ecsvars == <<ecs_pc, ecs_ip, ecs_options, ecs_calls>>

vars == <<srvvars, dohvars, tcpvars, b64vars, ecsvars>>

\* what the actions of one component leave alone
notsrv == <<dohvars, tcpvars, b64vars, ecsvars>>
notdoh == <<srvvars, tcpvars, b64vars, ecsvars>>
nottcp == <<srvvars, dohvars, b64vars, ecsvars>>
notb64 == <<srvvars, dohvars, tcpvars, ecsvars>>
notecs == <<srvvars, dohvars, tcpvars, b64vars>>

(***************************************************************************)
(* Bounds                                                                  *)
(***************************************************************************)
MaxMtime   == 2    \* modification times are 1..MaxMtime
MaxWrites  == 2    \* file writes in a run
MaxReloads == 2    \* reload signals in a run
MaxReads   == 1    \* recv() calls per connection
MaxConns   == 1    \* connections accepted in a run
MaxThreads == 2    \* connections accepted in a run of concurrent connection threads
MaxReqs    == 1    \* HTTP requests in a run
MaxConc    == 2    \* HTTP requests in a run of concurrent well-formed requests
MaxMsgs    == 2    \* messages in a TCP stream
MaxMsgLen  == 2    \* bytes in a message of a TCP stream
MaxB64Len  == 3    \* bytes in a string given to the base64url codec
MaxOptions == 2    \* EDNS options of a query before set_dns_ecs
MaxEcsCalls == 2   \* calls of set_dns_ecs on one query

(***************************************************************************)
(* Strings                                                                 *)
(***************************************************************************)
Max(S) == CHOOSE x \in S : \A y \in S : y <= x
Min(S) == CHOOSE x \in S : \A y \in S : x <= y
Range(s) == {s[i] : i \in DOMAIN s}

\* str.lower() on one character of the model's alphabet
LowerChar(c) == CASE c = "A" -> "a"
                  [] c = "B" -> "b"
                  [] OTHER   -> c

LowerStr(s) == [i \in 1..Len(s) |-> LowerChar(s[i])]

IsSpace(c) == c \in {" ", "\n"}

RECURSIVE lstrip(_)
lstrip(s) == IF s # <<>> /\ IsSpace(Head(s)) THEN lstrip(Tail(s)) ELSE s

RECURSIVE rstrip(_)
rstrip(s) == IF s # <<>> /\ IsSpace(s[Len(s)]) THEN rstrip(SubSeq(s, 1, Len(s) - 1)) ELSE s

\* str.strip()
strip(s) == rstrip(lstrip(s))

\* file.split('/')[-1]
LastPathComponent(p) ==
    LET idx == {i \in 1..Len(p) : p[i] = "/"}
    IN  IF idx = {} THEN p ELSE SubSeq(p, Max(idx) + 1, Len(p))

\* name.split('.')[0]
BeforeFirstDot(n) ==
    LET idx == {i \in 1..Len(n) : n[i] = "."}
    IN  IF idx = {} THEN n ELSE SubSeq(n, 1, Min(idx) - 1)

\* user = file.split('/')[-1].split('.')[0]
user_of(file) == BeforeFirstDot(LastPathComponent(file))

\* [line.strip() for line in fin]
read_lines(lines) == [i \in 1..Len(lines) |-> strip(lines[i])]

(***************************************************************************)
(* CIMultiDict, as used here: one value per key, keys compared             *)
(* case-insensitively.  A dict is a function whose domain is the set of    *)
(* folded keys.                                                            *)
(***************************************************************************)
CIKey(k) == LowerStr(k)
CIEmpty == [k \in {} |-> 0]
CIContains(d, k) == CIKey(k) \in DOMAIN d
CIGet(d, k) == d[CIKey(k)]
CISet(d, k, v) == [x \in (DOMAIN d) \cup {CIKey(k)} |-> IF x = CIKey(k) THEN v ELSE d[x]]

(***************************************************************************)
(* The universe of the policy server                                       *)
(***************************************************************************)
Files == { <<"d", "/", "a">>, <<"d", "/", "B", ".", "t">> }

\* args.filespath, and the key it is kept under in fileslist
FilesPath == <<"d">>
PathKey == <<"p", "a", "t", "h">>

\* os.path.join(dirpath, f) lies under path
IsUnder(file, path) ==
    /\ Len(file) > Len(path) + 1
    /\ SubSeq(file, 1, Len(path)) = path
    /\ file[Len(path) + 1] = "/"

RECURSIVE SeqsUpTo(_, _)
SeqsUpTo(S, n) == IF n = 0 THEN {<<>>}
                  ELSE LET shorter == SeqsUpTo(S, n - 1)
                       IN  shorter \cup {Append(s, x) : s \in shorter, x \in S}

\* The contents a blocklist file may have: its lines, terminators removed
Contents == { <<>>, << <<"a">> >>, << <<"a">>, <<"b", " ">> >> }

ReqUsers   == { <<"b">>, <<"c">> }
ReqDomains == { <<"a">>, <<"A">>, <<"b">> }

\* A directory entry os.walk lists as a file is a readable text file
\* ("file"), a file open() refuses ("noperm"), a file whose bytes do not
\* decode as text ("binary"), or a symbolic link to nothing ("dangling")
NoFile == [exists |-> FALSE, mtime |-> 0, lines |-> <<>>, kind |-> "file"]
TextFile(m, c) == [exists |-> TRUE, mtime |-> m, lines |-> c, kind |-> "file"]

\* os.stat(file) raises: the entry is gone since it was listed, or is a dangling link
stat_fails(file) == ~fs[file].exists \/ fs[file].kind = "dangling"

\* open(file) or the iteration over its lines raises inside the try block
open_fails(file) == fs[file].kind \in {"noperm", "binary"}

\* What json.loads(data.decode()) yields for the buffers a client may send:
\* a JSON object (a function from its keys to strings), a JSON array (the set
\* of its items), a JSON number, or no value at all (not JSON).
JsonObjects ==
    {[k \in {"user", "domain"} |-> IF k = "user" THEN u ELSE d] : u \in ReqUsers, d \in ReqDomains}
    \cup {[k \in {"user"} |-> u] : u \in {<<"b">>}}

NoObj == [k \in {} |-> <<>>]

Payloads ==
    {[t |-> "obj", obj |-> o, items |-> {}] : o \in JsonObjects}
    \cup {[t |-> "list", obj |-> NoObj, items |-> {"user", "domain"}],
          [t |-> "list", obj |-> NoObj, items |-> {}]}
    \cup {[t |-> "notjson", obj |-> NoObj, items |-> {}]}
    \cup {[t |-> "empty", obj |-> NoObj, items |-> {}]}

NoReq == [c |-> 0, data |-> [t |-> "none", obj |-> NoObj, items |-> {}], reply |-> "none"]

Conns == 1..MaxConns

\* a connection thread between the two reads of blocklist in is_blocked: the
\* request, and (observation) the entry the user had at the first read
NoPending == [active |-> FALSE, data |-> NoReq.data, entry0 |-> <<>>]

\* is_blocked without the test on the user: the domain is looked up in every entry
is_blocked_any_user(bl, data) ==
    CASE data.t = "list" ->
            IF "user" \in data.items /\ "domain" \in data.items
            THEN "TypeError"
            ELSE "False"
      [] OTHER ->
            IF "user" \in DOMAIN data.obj /\ "domain" \in DOMAIN data.obj
            THEN IF \E k \in DOMAIN bl : data.obj["domain"] \in Range(bl[k])
                 THEN "True"
                 ELSE "False"
            ELSE "False"

(***************************************************************************)
(* socketserver.is_blocked: "True", "False", "None" (the function falls    *)
(* off its end) or "TypeError" (raised by the membership test or the       *)
(* subscript on a value that is not an object).                            *)
(***************************************************************************)
is_blocked(bl, data) ==
    CASE data.t = "list" ->
            IF "user" \in data.items /\ "domain" \in data.items
            THEN "TypeError"                       \* data['domain'] on a list
            ELSE "False"
      [] OTHER ->
            IF "user" \in DOMAIN data.obj /\ "domain" \in DOMAIN data.obj
            THEN IF CIContains(bl, data.obj["user"])
                 THEN IF data.obj["domain"] \in Range(CIGet(bl, data.obj["user"]))
                      THEN "True"
                      ELSE "None"
                 ELSE "False"
            ELSE "False"

(***************************************************************************)
(* Initial state: the process has been started, nothing is loaded yet.     *)
(***************************************************************************)
InitServer ==
    /\ fs \in [Files -> {NoFile} \cup {TextFile(1, c) : c \in Contents}]
    /\ blocklist = CIEmpty
    /\ fileslist = CIEmpty
    /\ srv_pc = "starting"
    /\ rl_pc = "idle"
    /\ rl_todo = <<>>
    /\ newfileslist = CIEmpty
    /\ conn = [c \in Conns |-> [open |-> FALSE, nread |-> 0, nsent |-> 0]]
    /\ pending = [c \in Conns |-> NoPending]
    /\ lastreq = NoReq
    /\ lastRead = [f \in Files |-> 0]
    /\ due = {}
    /\ missing = {}
    /\ didOpen = FALSE
    /\ nwrites = 0
    /\ nreloads = 0

\* the store losing its other entries when one is assigned
store_entry_rebuild(bl, user, lines) == CISet(CIEmpty, user, lines)

\* blocklist[user] = [line.strip() for line in fin]: the list is built, then
\* stored under the key in one assignment
store_entry(bl, user, lines) == CISet(bl, user, read_lines(lines))

\* The files os.walk(path) lists, in any order the directory yields them
Listings(path) == {s \in SeqsUpTo(Files, Cardinality(Files)) :
                     /\ Range(s) = {f \in Files : fs[f].exists /\ IsUnder(f, path)}
                     /\ Len(s) = Cardinality(Range(s))}

\* read_files: the loop over the walk, on the dicts bl and fl; lr records the
\* files read.  os.stat is outside the try block: when it raises, the
\* exception ends the loop and the caller (crashed).
RECURSIVE read_files_loop(_, _, _, _)
read_files_loop(todo, bl, fl, lr) ==
    IF todo = <<>> THEN [bl |-> bl, fl |-> fl, lr |-> lr, crashed |-> FALSE]
    ELSE LET file == Head(todo)
         IN  IF stat_fails(file)
             THEN [bl |-> bl, fl |-> fl, lr |-> lr, crashed |-> TRUE]
             ELSE IF open_fails(file)              \* except Exception: logger.error
             THEN read_files_loop(Tail(todo), bl, CISet(fl, file, fs[file].mtime), lr)
             ELSE read_files_loop(Tail(todo),
                                  store_entry(bl, user_of(file), fs[file].lines),
                                  CISet(fl, file, fs[file].mtime),
                                  [lr EXCEPT ![file] = fs[file].mtime])

\* main: read_files, install the handler, bind and start listening
read_files ==
    /\ srv_pc = "starting"
    /\ UNCHANGED notsrv
    /\ \E listing \in Listings(FilesPath) :
          LET r == read_files_loop(listing, blocklist,
                                   CISet(fileslist, PathKey, FilesPath), lastRead)
          IN  /\ blocklist' = r.bl
              /\ fileslist' = r.fl
              /\ lastRead' = r.lr
              /\ srv_pc' = IF r.crashed THEN "crashed" ELSE "serving"
    /\ UNCHANGED <<fs, rl_pc, rl_todo, newfileslist, conn, pending, lastreq, due, missing, didOpen,
                   nwrites, nreloads>>

\* The administrator (or any other process) writes a blocklist file
FileWrite(f, c, m) ==
    /\ srv_pc = "serving"
    /\ UNCHANGED notsrv
    /\ nwrites < MaxWrites
    /\ fs' = [fs EXCEPT ![f] = TextFile(m, c)]
    /\ fs' # fs
    /\ due' = due \ {f}
    /\ missing' = missing \ {f}
    /\ nwrites' = nwrites + 1
    /\ UNCHANGED <<blocklist, fileslist, srv_pc, rl_pc, rl_todo, newfileslist, conn, pending,
                   lastreq, lastRead, didOpen, nreloads>>

\* read_on_signal starting from an empty store, as it does for newfileslist
read_on_signal_begin_fresh ==
    /\ srv_pc = "serving"
    /\ UNCHANGED notsrv
    /\ rl_pc = "idle"
    /\ nreloads < MaxReloads
    /\ \E listing \in Listings(CIGet(fileslist, PathKey)) :
          /\ rl_todo' = listing
          /\ rl_pc' = IF listing = <<>> THEN "idle" ELSE "walking"
    /\ newfileslist' = CIEmpty
    /\ blocklist' = CIEmpty
    /\ due' = {f \in Files : fs[f].exists /\ fs[f].mtime # lastRead[f]}
    /\ missing' = {f \in Files : ~fs[f].exists /\ lastRead[f] # 0}
    /\ didOpen' = FALSE
    /\ nreloads' = nreloads + 1
    /\ UNCHANGED <<fs, fileslist, srv_pc, conn, pending, lastreq, lastRead, nwrites>>

\* SIGUSR1 is delivered: read_on_signal starts and lists the directory
read_on_signal_begin ==
    /\ srv_pc = "serving"
    /\ UNCHANGED notsrv
    /\ rl_pc = "idle"
    /\ nreloads < MaxReloads
    /\ \E listing \in Listings(CIGet(fileslist, PathKey)) :
          /\ rl_todo' = listing
          /\ rl_pc' = IF listing = <<>> THEN "idle" ELSE "walking"
    /\ newfileslist' = CIEmpty
    /\ due' = {f \in Files : fs[f].exists /\ fs[f].mtime # lastRead[f]}
    /\ missing' = {f \in Files : ~fs[f].exists /\ lastRead[f] # 0}
    /\ didOpen' = FALSE
    /\ nreloads' = nreloads + 1
    /\ UNCHANGED <<fs, blocklist, fileslist, srv_pc, conn, pending, lastreq, lastRead, nwrites>>

\* read_on_signal: one iteration of the loop over the listed files.  The
\* handler runs on the main thread, inside listen: an exception of os.stat
\* (line 111, outside the try block) leaves the handler and listen, which
\* catches KeyboardInterrupt only, and ends the main thread.
read_on_signal_file ==
    /\ rl_pc = "walking"
    /\ UNCHANGED notsrv
    /\ LET file == Head(rl_todo)
           nfl  == CISet(newfileslist, file, fs[file].mtime)
           skip == CIContains(fileslist, file) /\ CIGet(nfl, file) = CIGet(fileslist, file)
       IN  IF stat_fails(file)
           THEN /\ srv_pc' = "crashed"
                /\ rl_pc' = "idle"
                /\ rl_todo' = <<>>
                /\ newfileslist' = CIEmpty
                /\ didOpen' = FALSE
                /\ UNCHANGED <<blocklist, lastRead>>
           ELSE /\ newfileslist' = IF Tail(rl_todo) = <<>> THEN CIEmpty ELSE nfl
                /\ didOpen' = (~skip /\ ~open_fails(file))
                /\ IF skip \/ open_fails(file)    \* continue, or except Exception
                   THEN UNCHANGED <<blocklist, lastRead>>
                   ELSE /\ blocklist' = store_entry(blocklist, user_of(file), fs[file].lines)
                        /\ lastRead' = [lastRead EXCEPT ![file] = fs[file].mtime]
                /\ rl_todo' = Tail(rl_todo)
                /\ rl_pc' = IF Tail(rl_todo) = <<>> THEN "idle" ELSE "walking"
                /\ UNCHANGED srv_pc
    /\ UNCHANGED <<fs, fileslist, conn, pending, lastreq, due, missing, nwrites, nreloads>>

\* socketserver.listen: accept a connection and start its thread
listen(c) ==
    /\ srv_pc = "serving"
    /\ UNCHANGED notsrv
    /\ rl_pc = "idle"
    /\ ~conn[c].open
    /\ conn[c].nread = 0
    /\ conn' = [conn EXCEPT ![c].open = TRUE]
    /\ UNCHANGED <<fs, blocklist, fileslist, srv_pc, rl_pc, rl_todo, newfileslist,
                   pending, lastreq, lastRead, due, missing, didOpen, nwrites, nreloads>>

\* socketserver.handle_req: one iteration of the loop, recv() returning data.
\* reply is the byte sent, or "close" when the except clause closes the socket.
handle_req_reply(bl, data) ==
    IF data.t = "empty" THEN "close"              \* raise error(...)
    ELSE IF data.t = "notjson" THEN "close"       \* json.loads raises
    ELSE LET r == is_blocked(bl, data)
         IN  CASE r = "TypeError" -> "close"
               [] r = "True"      -> "01"         \* bytes([True])
               [] OTHER           -> "00"         \* bytes([False])

\* the except clause closing every connection, not only the client's
conn_update_close_all(cn, c, reply) ==
    [o \in DOMAIN cn |->
        [open  |-> cn[o].open /\ reply # "close",
         nread |-> IF o = c THEN cn[o].nread + 1 ELSE cn[o].nread,
         nsent |-> IF o = c /\ reply # "close" THEN cn[o].nsent + 1 ELSE cn[o].nsent]]

\* what one iteration of handle_req does to the connections: client.send of
\* the reply byte, or client.close() in the except clause
conn_update(cn, c, reply) ==
    [cn EXCEPT ![c] =
        [open  |-> reply # "close",
         nread |-> @.nread + 1,
         nsent |-> IF reply = "close" THEN @.nsent ELSE @.nsent + 1]]

\* one iteration with no step of another thread inside it
handle_req(c, data) ==
    /\ conn[c].open
    /\ UNCHANGED notsrv
    /\ ~pending[c].active
    /\ conn[c].nread < MaxReads
    /\ LET reply == handle_req_reply(blocklist, data)
       IN  /\ conn' = conn_update(conn, c, reply)
           /\ lastreq' = [c |-> c, data |-> data, reply |-> reply]
    /\ UNCHANGED <<fs, blocklist, fileslist, srv_pc, rl_pc, rl_todo, newfileslist,
                   pending, lastRead, due, missing, didOpen, nwrites, nreloads>>

\* One iteration of handle_req with the steps of other threads between its
\* reads of blocklist: recv, json.loads and is_blocked up to the test
\* data['user'] in blocklist (line 48)
handle_req_test(c, data) ==
    /\ conn[c].open
    /\ UNCHANGED notsrv
    /\ ~pending[c].active
    /\ conn[c].nread < MaxReads
    /\ IF data.t = "obj" /\ "user" \in DOMAIN data.obj /\ "domain" \in DOMAIN data.obj
          /\ CIContains(blocklist, data.obj["user"])
       THEN /\ pending' = [pending EXCEPT ![c] =
                   [active |-> TRUE, data |-> data,
                    entry0 |-> CIGet(blocklist, data.obj["user"])]]
            /\ UNCHANGED <<conn, lastreq>>
       ELSE LET reply == handle_req_reply(blocklist, data)
            IN  /\ conn' = conn_update(conn, c, reply)
                /\ lastreq' = [c |-> c, data |-> data, reply |-> reply]
                /\ UNCHANGED pending
    /\ UNCHANGED <<fs, blocklist, fileslist, srv_pc, rl_pc, rl_todo, newfileslist,
                   lastRead, due, missing, didOpen, nwrites, nreloads>>

\* ... and the rest of it: blocklist[data['user']] (KeyError if the key is
\* gone), the membership test on that list (line 49), and the send
handle_req_send(c) ==
    /\ pending[c].active
    /\ UNCHANGED notsrv
    /\ LET data  == pending[c].data
           reply == IF ~CIContains(blocklist, data.obj["user"]) THEN "close"
                    ELSE IF data.obj["domain"] \in Range(CIGet(blocklist, data.obj["user"]))
                    THEN "01" ELSE "00"
       IN  /\ conn' = conn_update(conn, c, reply)
           /\ lastreq' = [c |-> c, data |-> data, reply |-> reply]
    /\ pending' = [pending EXCEPT ![c] = NoPending]
    /\ UNCHANGED <<fs, blocklist, fileslist, srv_pc, rl_pc, rl_todo, newfileslist,
                   lastRead, due, missing, didOpen, nwrites, nreloads>>

\* client.recv raises socket.timeout after the 60 s set by listen: the except
\* clause closes the connection
Timeout == [t |-> "timeout", obj |-> NoObj, items |-> {}]

handle_req_timeout(c) ==
    /\ conn[c].open
    /\ UNCHANGED notsrv
    /\ ~pending[c].active
    /\ conn[c].nread < MaxReads
    /\ conn' = conn_update(conn, c, "close")
    /\ lastreq' = [c |-> c, data |-> Timeout, reply |-> "close"]
    /\ UNCHANGED <<fs, blocklist, fileslist, srv_pc, rl_pc, rl_todo, newfileslist,
                   pending, lastRead, due, missing, didOpen, nwrites, nreloads>>

(***************************************************************************)
(* Claims about the policy server                                          *)
(***************************************************************************)
\* A step in which a connection thread handled the buffer lastreq'.data
Handled == \E c \in Conns : conn'[c].nread = conn[c].nread + 1

WellFormed(data) == data.t = "obj" /\ {"user", "domain"} \subseteq DOMAIN data.obj

\* The store bl has an entry for user u that contains domain d
EntryContains(bl, u, d) ==
    \E k \in DOMAIN bl : /\ k = LowerStr(u)
                          /\ \E i \in 1..Len(bl[k]) : bl[k][i] = d

\* C1: for every request {user, domain} the server reads, in every store
\* state, the reply byte is 0x01 if and only if the store has an entry for the
\* user and that entry contains the domain; an unknown user gets 0x00.
C1_ReplyIffEntryContains ==
    [][(Handled /\ WellFormed(lastreq'.data)) =>
          /\ lastreq'.reply \in {"01", "00"}
          /\ lastreq'.reply = "01" <=>
                EntryContains(blocklist, lastreq'.data.obj["user"], lastreq'.data.obj["domain"])
          /\ (LowerStr(lastreq'.data.obj["user"]) \notin DOMAIN blocklist) => lastreq'.reply = "00"
      ]_vars

\* a known user's request for a listed domain has been answered 0x01, and the
\* store also holds an entry of another user
C1_Witness ==
    /\ lastreq.reply = "01"
    /\ WellFormed(lastreq.data)
    /\ lastreq.data.obj["user"] = <<"b">>
    /\ Cardinality(DOMAIN blocklist) = 2

\* C2 (as claimed): for a known user, a requested domain that differs from a
\* line of the user's file only in letter case is answered 0x01.
C2_CaseInsensitiveMatch ==
    [][(/\ Handled
        /\ WellFormed(lastreq'.data)
        /\ CIContains(blocklist, lastreq'.data.obj["user"])
        /\ \E line \in Range(CIGet(blocklist, lastreq'.data.obj["user"])) :
               LowerStr(line) = LowerStr(lastreq'.data.obj["domain"]))
       => lastreq'.reply = "01"]_vars

\* C3 (as claimed): every non-empty buffer read is answered with exactly one
\* byte, which is 0x00 when the payload is malformed or is not JSON.
C3_OneByteForEveryBuffer ==
    lastreq.data.t \notin {"none", "empty"} =>
        /\ lastreq.reply \in {"01", "00"}
        /\ ~WellFormed(lastreq.data) => lastreq.reply = "00"

\* C8 (as claimed): once a reload has completed, every file whose modification
\* time differed from the one it had when it was last read (and that was not
\* written again meanwhile) has its user's entry equal to its content.
C8_ReloadBringsEntryUpToDate ==
    (srv_pc = "serving" /\ rl_pc = "idle" /\ nreloads > 0) =>
        \A f \in due :
            /\ CIContains(blocklist, user_of(f))
            /\ CIGet(blocklist, user_of(f)) = read_lines(fs[f].lines)

\* C9 (as claimed): on every reload a file whose modification time is unchanged
\* since it was last read is skipped: not opened, its user's entry left alone.
C9_UnchangedFileSkipped ==
    [][(/\ rl_pc = "walking"
        /\ rl_todo' = Tail(rl_todo)
        /\ lastRead[Head(rl_todo)] # 0
        /\ fs[Head(rl_todo)].mtime = lastRead[Head(rl_todo)])
       => (~didOpen' /\ blocklist' = blocklist)]_vars


(***************************************************************************)
(* The policy server with concurrent connection threads: the lookups are   *)
(* split at their reads of blocklist, so that steps of a reload and of      *)
(* other threads fall between them.                                        *)
(***************************************************************************)
ThreadConns == 1..MaxThreads

\* the buffers the clients send: the request of user b for the domain b,
\* bytes that are not JSON, and the empty read of a disconnected client
ThreadPayloads ==
    { [t |-> "obj", obj |-> [k \in {"user", "domain"} |-> <<"b">>], items |-> {}],
      [t |-> "notjson", obj |-> NoObj, items |-> {}],
      [t |-> "empty", obj |-> NoObj, items |-> {}] }

\* the file that is rewritten while the server runs: the file of user b
ThreadFiles == { <<"d", "/", "B", ".", "t">> }

\* both files exist when the server starts, each with the one line "a"
InitServerThreads ==
    /\ fs = [f \in Files |-> TextFile(1, << <<"a">> >>)]
    /\ blocklist = CIEmpty
    /\ fileslist = CIEmpty
    /\ srv_pc = "starting"
    /\ rl_pc = "idle"
    /\ rl_todo = <<>>
    /\ newfileslist = CIEmpty
    /\ conn = [c \in ThreadConns |-> [open |-> FALSE, nread |-> 0, nsent |-> 0]]
    /\ pending = [c \in ThreadConns |-> NoPending]
    /\ lastreq = NoReq
    /\ lastRead = [f \in Files |-> 0]
    /\ due = {}
    /\ missing = {}
    /\ didOpen = FALSE
    /\ nwrites = 0
    /\ nreloads = 0

NextThreads ==
    \/ read_files
    \/ \E f \in ThreadFiles, c \in Contents : FileWrite(f, c, MaxMtime)
    \/ read_on_signal_begin
    \/ read_on_signal_file
    \/ \E c \in ThreadConns : listen(c)
    \/ \E c \in ThreadConns, data \in ThreadPayloads : handle_req_test(c, data)
    \/ \E c \in ThreadConns : handle_req_send(c)
    \/ \E c \in ThreadConns : handle_req_timeout(c)

\* entry is the whole of a file with these lines: one stripped item per line
CompleteEntry(entry, lines) ==
    /\ Len(entry) = Len(lines)
    /\ \A i \in 1..Len(lines) : entry[i] = strip(lines[i])

\* C19: whatever steps of a reload fall inside a lookup, the store never loses
\* a user, every entry stored is the whole of the user's file as it is read,
\* and the reply of the lookup is the one for the entry the user had when the
\* lookup began or for the whole entry that replaced it.
C19_LookupSeesWholeEntry ==
    [][/\ \A k \in DOMAIN blocklist : k \in DOMAIN blocklist'
       /\ \A k \in DOMAIN blocklist' :
             (k \notin DOMAIN blocklist \/ blocklist'[k] # blocklist[k]) =>
                 \E f \in Files : /\ CIKey(user_of(f)) = k
                                  /\ fs[f].exists
                                  /\ CompleteEntry(blocklist'[k], fs[f].lines)
       /\ \A c \in ThreadConns :
             (pending[c].active /\ ~pending'[c].active) =>
                 LET u == pending[c].data.obj["user"]
                     d == pending[c].data.obj["domain"]
                 IN  /\ lastreq'.c = c
                     /\ lastreq'.reply \in {"01", "00"}
                     /\ \E e \in {pending[c].entry0, CIGet(blocklist, u)} :
                           lastreq'.reply = "01" <=> d \in Range(e)
      ]_vars

\* a reload is under way and has replaced the entry of a user whose lookup is
\* between its two reads of the store
C19_Witness ==
    \E c \in ThreadConns :
        /\ pending[c].active
        /\ rl_pc = "walking"
        /\ CIGet(blocklist, pending[c].data.obj["user"]) # pending[c].entry0
        /\ pending[c].data.obj["domain"] \in Range(CIGet(blocklist, pending[c].data.obj["user"]))
        /\ pending[c].data.obj["domain"] \notin Range(pending[c].entry0)

\* connection c was closed by the except clause: a recv that raised or
\* returned nothing, or a buffer that could not be answered
Errored(c) == ~conn[c].open /\ conn[c].nread > conn[c].nsent

\* connection c is open and its thread waits in recv for a client that sends nothing
Silent(c) == conn[c].open /\ ~pending[c].active

\* whatever happened on connection c, the thread of any other connection o can
\* take its next step, and the accept loop (when no signal handler is running)
\* can accept o
OthersCanRun ==
    \A c \in ThreadConns, o \in ThreadConns :
        (c # o /\ (Errored(c) \/ Silent(c))) =>
            /\ (conn[o].open /\ ~pending[o].active /\ conn[o].nread < MaxReads) =>
                  \A data \in ThreadPayloads : ENABLED handle_req_test(o, data)
            /\ pending[o].active => ENABLED handle_req_send(o)
            /\ (~conn[o].open /\ conn[o].nread = 0 /\ srv_pc = "serving" /\ rl_pc = "idle") =>
                  ENABLED listen(o)

\* a step of the thread of connection c changes nothing of another connection
\* or of the accept loop, and a close in it closes c
OnlyOwnConnection ==
    \A c \in ThreadConns :
        (conn[c].open /\ (conn'[c] # conn[c] \/ pending'[c] # pending[c])) =>
            /\ \A o \in ThreadConns \ {c} : conn'[o] = conn[o] /\ pending'[o] = pending[o]
            /\ srv_pc' = srv_pc
            /\ (lastreq' # lastreq /\ lastreq'.reply = "close") =>
                  (lastreq'.c = c /\ ~conn'[c].open)

\* C20: an error on a connection (payload that is not JSON, client gone, idle
\* timeout) closes that connection only; the other connections stay as they
\* are and their threads can go on answering, the accept loop can go on
\* accepting, and a connection whose client is silent blocks no other thread.
C20_ConnectionsIsolated == []OthersCanRun /\ [][OnlyOwnConnection]_vars

\* connection 1 was closed on an error without a reply, and afterwards
\* connection 2 was answered
C20_Witness ==
    /\ Errored(1)
    /\ conn[1].nsent = 0
    /\ lastreq.c = 2
    /\ lastreq.reply \in {"00", "01"}
    /\ conn[2].open
    /\ conn[2].nsent = 1

(***************************************************************************)
(* The policy server with a directory whose files are deleted and become   *)
(* unreadable while it runs, and with the interrupt that shuts it down.    *)
(***************************************************************************)
\* a file is removed from the directory
FileDelete(f) ==
    /\ srv_pc = "serving"
    /\ UNCHANGED notsrv
    /\ nwrites < MaxWrites
    /\ fs[f].exists
    /\ fs' = [fs EXCEPT ![f] = NoFile]
    /\ due' = due \ {f}
    /\ nwrites' = nwrites + 1
    /\ UNCHANGED <<blocklist, fileslist, srv_pc, rl_pc, rl_todo, newfileslist, conn, pending,
                   lastreq, lastRead, missing, didOpen, nreloads>>

\* a file is replaced, with modification time m, by one that cannot be
\* opened, cannot be decoded, or is a link to nothing
FileSpoil(f, kind, m) ==
    /\ srv_pc = "serving"
    /\ UNCHANGED notsrv
    /\ nwrites < MaxWrites
    /\ fs[f].exists
    /\ fs' = [fs EXCEPT ![f] = [exists |-> TRUE, mtime |-> m, lines |-> <<>>, kind |-> kind]]
    /\ fs' # fs
    /\ due' = due \ {f}
    /\ nwrites' = nwrites + 1
    /\ UNCHANGED <<blocklist, fileslist, srv_pc, rl_pc, rl_todo, newfileslist, conn, pending,
                   lastreq, lastRead, missing, didOpen, nreloads>>

\* KeyboardInterrupt reaches listen (also from inside the signal handler it
\* runs): the except clause removes the socket file and closes the listener
shutdown ==
    /\ srv_pc = "serving"
    /\ UNCHANGED notsrv
    /\ srv_pc' = "stopped"
    /\ rl_pc' = "idle"
    /\ rl_todo' = <<>>
    /\ newfileslist' = CIEmpty
    /\ UNCHANGED <<fs, blocklist, fileslist, conn, pending, lastreq, lastRead, due, missing,
                   didOpen, nwrites, nreloads>>

\* what the directory holds when the server starts: per file a text file with
\* the line "b", a file that cannot be opened, or a link to nothing
StartFiles ==
    { TextFile(1, << <<"b">> >>),
      [exists |-> TRUE, mtime |-> 1, lines |-> <<>>, kind |-> "noperm"],
      [exists |-> TRUE, mtime |-> 1, lines |-> <<>>, kind |-> "dangling"] }

SpoiledKinds == {"noperm", "binary", "dangling"}

\* the requests of user b for the domains a and b
FilesPayloads ==
    {[t |-> "obj", obj |-> [k \in {"user", "domain"} |-> IF k = "user" THEN <<"b">> ELSE d],
      items |-> {}] : d \in {<<"a">>, <<"b">>}}

InitServerFiles ==
    /\ fs \in [Files -> StartFiles]
    /\ blocklist = CIEmpty
    /\ fileslist = CIEmpty
    /\ srv_pc = "starting"
    /\ rl_pc = "idle"
    /\ rl_todo = <<>>
    /\ newfileslist = CIEmpty
    /\ conn = [c \in Conns |-> [open |-> FALSE, nread |-> 0, nsent |-> 0]]
    /\ pending = [c \in Conns |-> NoPending]
    /\ lastreq = NoReq
    /\ lastRead = [f \in Files |-> 0]
    /\ due = {}
    /\ missing = {}
    /\ didOpen = FALSE
    /\ nwrites = 0
    /\ nreloads = 0

NextFiles ==
    \/ read_files
    \/ \E f \in Files : FileWrite(f, << <<"a">> >>, MaxMtime)
    \/ \E f \in Files : FileDelete(f)
    \/ \E f \in Files, kind \in SpoiledKinds : FileSpoil(f, kind, MaxMtime)
    \/ read_on_signal_begin
    \/ read_on_signal_file
    \/ shutdown
    \/ \E c \in Conns : listen(c)
    \/ \E c \in Conns, data \in FilesPayloads : handle_req(c, data)

\* the step is an iteration of read_on_signal on a file that cannot be
\* inspected, opened or read
ReloadMeetsBadFile ==
    /\ rl_pc = "walking"
    /\ rl_todo' # rl_todo
    /\ srv_pc' # "stopped"
    /\ stat_fails(Head(rl_todo)) \/ open_fails(Head(rl_todo))

\* the step is the initial load of a directory with such a file
LoadMeetsBadFile ==
    /\ srv_pc = "starting"
    /\ srv_pc' # "starting"
    /\ \E f \in Files : fs[f].exists /\ (stat_fails(f) \/ open_fails(f))

\* C21 (as claimed): a file that cannot be inspected, opened or read is
\* skipped: the store is left as it was for its user, the walk goes on with
\* the remaining files, and the server goes on; at the initial load every
\* other file is loaded and the server starts serving.
C21_BadFileSkipped ==
    [][/\ ReloadMeetsBadFile =>
             /\ blocklist' = blocklist
             /\ rl_todo' = Tail(rl_todo)
             /\ srv_pc' = srv_pc
       /\ LoadMeetsBadFile =>
             /\ srv_pc' = "serving"
             /\ \A f \in Files :
                   IF stat_fails(f) \/ open_fails(f)
                   THEN ~CIContains(blocklist', user_of(f))
                   ELSE /\ CIContains(blocklist', user_of(f))
                        /\ CIGet(blocklist', user_of(f)) = read_lines(fs[f].lines)
      ]_vars

\* C22 (as claimed): the server leaves SERVING only by the shutdown, and every
\* reload that has begun is followed by a state in which no reload is running
\* and the server is serving (or has been shut down by the interrupt).
C22_ServingAfterReload ==
    /\ [][srv_pc = "serving" => srv_pc' \in {"serving", "stopped"}]_vars
    /\ (rl_pc = "walking") ~> (rl_pc = "idle" /\ srv_pc \in {"serving", "stopped"})

\* file f was loaded into the store and is gone from the directory
DeletedAfterLoad(f) == ~fs[f].exists /\ lastRead[f] # 0

\* C23: while a file that was loaded is gone from the directory, no step (of a
\* reload or of anything else, the deletion included) removes or changes the
\* entry of its user, and a query for that user is answered from that entry.
C23_DeletedFileEntryKept ==
    [][\A f \in Files :
          /\ (DeletedAfterLoad(f) \/ (fs[f].exists /\ ~fs'[f].exists /\ lastRead[f] # 0)) =>
                /\ CIContains(blocklist, user_of(f))
                /\ CIContains(blocklist', user_of(f))
                /\ CIGet(blocklist', user_of(f)) = CIGet(blocklist, user_of(f))
          /\ (DeletedAfterLoad(f) /\ Handled /\ WellFormed(lastreq'.data)
                /\ CIKey(lastreq'.data.obj["user"]) = CIKey(user_of(f))) =>
                (lastreq'.reply = "01" <=>
                    lastreq'.data.obj["domain"] \in Range(CIGet(blocklist, user_of(f))))
      ]_vars

\* the file of user b was loaded with the line "b" and deleted; the reloads
\* that began without it have completed; the entry is still there and a query
\* of user b for the domain b was answered 0x01
C23_Witness ==
    /\ <<"d", "/", "B", ".", "t">> \in missing
    /\ ~fs[<<"d", "/", "B", ".", "t">>].exists
    /\ nreloads = MaxReloads
    /\ rl_pc = "idle"
    /\ srv_pc = "serving"
    /\ CIGet(blocklist, <<"b">>) = << <<"b">> >>
    /\ lastreq.data.t = "obj"
    /\ lastreq.reply = "01"

(***************************************************************************)
(* DOH frontend (httpproxy.py) and the helpers of utils.py it calls        *)
(***************************************************************************)
DOH_MEDIA_TYPE == "application/dns-message"
SynthTTL == 300

Reqs == 1..MaxReqs

Methods == {"GET", "HEAD", "POST", "PUT"}

\* get_app: add_get (which also routes HEAD) and add_post; the router answers
\* 405 to any other method
RoutedMethods == {"GET", "HEAD", "POST"}

\* DNS messages: id, question section, answer section (records with a ttl)
NoMsg == [id |-> 0, question |-> <<>>, answer |-> <<>>]

DnsQueries == { [id |-> 1, question |-> <<>>, answer |-> <<>>],
                [id |-> 2, question |-> <<"x.">>, answer |-> <<>>] }

RR(name, ttl, rdtype, rdata) == [name |-> name, ttl |-> ttl, rdtype |-> rdtype, rdata |-> rdata]

\* the answer sections the upstream resolver may return for a query
AnswerSections(q) ==
    LET n == IF q.question = <<>> THEN "x." ELSE q.question[1]
    IN  { <<>>, <<RR(n, 300, "A", "192.0.2.1"), RR(n, 10, "A", "192.0.2.2")>>,
          <<RR(n, 600, "A", "192.0.2.1")>>  }

\* DNSClient.query: a response to the query, or None
NoneAnswer == [none |-> TRUE, msg |-> NoMsg]
ResolverResults(q) ==
    {NoneAnswer} \cup
    {[none |-> FALSE, msg |-> [id |-> q.id, question |-> q.question, answer |-> a]] :
        a \in AnswerSections(q)}

\* Byte strings carried by HTTP: empty, the wire form of a message, or bytes
\* that are not a DNS message (for instance a truncated message)
EmptyBytes == [len |-> "empty", msg |-> NoMsg]
BadBytes   == [len |-> "bad", msg |-> NoMsg]
to_wire(m) == [len |-> "msg", msg |-> m]
Bodies == {EmptyBytes, BadBytes} \cup {to_wire(q) : q \in DnsQueries}

\* the dns= parameter of a GET: absent, ASCII that is not base64 (one data
\* character too many), text with a non-ASCII character, or the encoding of a body
DnsParams == {[t |-> "missing", body |-> EmptyBytes], [t |-> "invalid", body |-> EmptyBytes],
              [t |-> "nonascii", body |-> EmptyBytes]}
             \cup {[t |-> "b64", body |-> b] : b \in Bodies}

ContentTypes == {"none", "text/plain", DOH_MEDIA_TYPE}

\* the Authorization header: absent, not "<scheme> <base64 of user:pass>", or well formed
AuthHeaders == {"none", "garbled", "ok"}

\* what the policy socket does with one request: an exception from connect,
\* send or recv, or the bytes recv(64) returns
IpcOutcomes == { [err |-> "connect", data |-> <<>>],
                 [err |-> "send",    data |-> <<>>],
                 [err |-> "recv",    data |-> <<>>],
                 [err |-> "none",    data |-> <<>>],
                 [err |-> "none",    data |-> <<0>>],
                 [err |-> "none",    data |-> <<1>>],
                 [err |-> "none",    data |-> <<1, 0>>] }

NoCacheControl == [has |-> FALSE, maxage |-> 0]
MaxAge(n) == [has |-> TRUE, maxage |-> n]

NoResponse == [status |-> 0, text |-> "", body |-> EmptyBytes, cc |-> NoCacheControl]

\* aiohttp.web.Response(status, body) with a diagnostic text
TextResponse(status, text) ==
    [status |-> status, text |-> text, body |-> EmptyBytes, cc |-> NoCacheControl]

\* what aiohttp answers when the handler raises
InternalServerError == TextResponse(500, "Internal Server Error")

NoPolicy == [t |-> "-", data |-> <<>>]

\* param, ct and body record what the handler read: the kind of the dns=
\* parameter, the content type it compared and the kind of the body bytes
NoRequest == [pc |-> "idle", method |-> "-", param |-> "-", ct |-> "-", body |-> "-",
              decoded |-> FALSE, dnsq |-> NoMsg,
              policy |-> NoPolicy, filtered |-> FALSE, queried |-> 0,
              dnsr |-> NoneAnswer, stamp |-> 0, resp |-> NoResponse]

\* utils.extract_ct_body: [raised, exc, ct, body]; raised is the exception that
\* leaves the function and exc the body of a DOHParamsException.  doh_b64_decode
\* raises binascii.Error for undecodable ASCII, which is caught, and ValueError
\* for a non-ASCII string, which is not.
extract_ct_body(param) ==
    IF param.t # "missing"
    THEN IF param.t = "nonascii"
         THEN [raised |-> "ValueError", exc |-> "", ct |-> "", body |-> EmptyBytes]
         ELSE IF param.t = "invalid"
         THEN [raised |-> "DOHParamsException", exc |-> "Invalid Body Parameter",
               ct |-> "", body |-> EmptyBytes]
         ELSE IF param.body = EmptyBytes
              THEN [raised |-> "DOHParamsException", exc |-> "Missing Body",
                    ct |-> "", body |-> EmptyBytes]
              ELSE [raised |-> "", exc |-> "", ct |-> DOH_MEDIA_TYPE, body |-> param.body]
    ELSE [raised |-> "DOHParamsException", exc |-> "Missing Body Parameter",
          ct |-> "", body |-> EmptyBytes]

\* utils.dns_query_from_body: [exc, msg]; exc is the DOHDNSException body
dns_query_from_body(body, dbg) ==
    IF body.len = "msg"
    THEN [exc |-> "", msg |-> body.msg]
    ELSE [exc |-> IF dbg THEN "parser diagnostic" ELSE "Malformed DNS query", msg |-> NoMsg]

\* dns.message.make_response
make_response(q) == [id |-> q.id, question |-> q.question, answer |-> <<>>]

MinTtl(answer) == Min({answer[i].ttl : i \in 1..Len(answer)})

\* on_answer taking the TTL of the first answer record instead of the minimum
on_answer_first_ttl(method, dnsr, dnsq) ==
    IF dnsr.none /\ dnsq.question = <<>>
    THEN InternalServerError
    ELSE LET r  == IF dnsr.none
                   THEN [make_response(dnsq) EXCEPT
                            !.answer = <<RR(dnsq.question[1], SynthTTL, "A", "0.0.0.0")>>]
                   ELSE dnsr.msg
             cc == IF dnsr.none THEN MaxAge(SynthTTL)
                   ELSE IF Len(r.answer) # 0 THEN MaxAge(r.answer[1].ttl)
                   ELSE NoCacheControl
         IN  [status |-> 200, text |-> "",
              body |-> IF method = "HEAD" THEN EmptyBytes ELSE to_wire(r),
              cc |-> cc]

\* DOHApplication.on_answer(request, dnsr=..., dnsq=...)
on_answer(method, dnsr, dnsq) ==
    IF dnsr.none /\ dnsq.question = <<>>
    THEN InternalServerError                       \* dnsq.question[0]: IndexError
    ELSE LET r  == IF dnsr.none
                   THEN [make_response(dnsq) EXCEPT
                            !.answer = <<RR(dnsq.question[1], SynthTTL, "A", "0.0.0.0")>>]
                   ELSE dnsr.msg
             cc == IF dnsr.none THEN MaxAge(SynthTTL)
                   ELSE IF Len(r.answer) # 0 THEN MaxAge(MinTtl(r.answer))
                   ELSE NoCacheControl
         IN  [status |-> 200, text |-> "",
              body |-> IF method = "HEAD" THEN EmptyBytes ELSE to_wire(r),
              cc |-> cc]

\* DOHApplication.resolve, lines 92-110: the policy check.  [t, data]: why the
\* check was not made ("noauth", "extract"), how it failed ("connect", "send", "recv"),
\* or the reply that was read ("reply").
policy_check(auth, dnsq, ipc) ==
    IF auth = "none" THEN [t |-> "noauth", data |-> <<>>]
    ELSE IF auth = "garbled" \/ dnsq.question = <<>> THEN [t |-> "extract", data |-> <<>>]
    ELSE IF ipc.err # "none" THEN [t |-> ipc.err, data |-> <<>>]
    ELSE [t |-> "reply", data |-> ipc.data]

\* filtered, after the policy check: line 103
policy_filtered_any_byte(p) == p.t = "reply" /\ p.data # <<>>

policy_filtered(p) == p.t = "reply" /\ p.data # <<>> /\ p.data = <<1>>

\* lines 112-118: a filtered request is answered at once, any other is sent upstream
resolve_queries_always(filtered) == TRUE

resolve_queries(filtered) == ~filtered

\* the outcomes of the policy socket that resolve can observe: none when the
\* socket is not used
NoIpc == [err |-> "unused", data |-> <<>>]
IpcFor(auth, dnsq) ==
    IF auth = "ok" /\ dnsq.question # <<>> THEN IpcOutcomes ELSE {NoIpc}

\* The event loop thread is inside a blocking call of the policy socket
\* (connect, send, recv are plain socket calls, not awaited)
Blocked == \E q \in DOMAIN req : req[q].pc = "policy"

\* DOHApplication.resolve from line 103 on, the policy check having given p:
\* the answer for a filtered request, or the query sent to the resolver
resolve_continue(r, seen, p, ts) ==
    LET f == policy_filtered(p)
        base == [seen EXCEPT !.policy = p, !.filtered = f]
    IN  IF resolve_queries(f)
        THEN req' = [req EXCEPT ![r] = [base EXCEPT !.pc = "resolving", !.queried = 1]]
        ELSE req' = [req EXCEPT ![r] =
                        [base EXCEPT !.pc = "done", !.stamp = ts,
                                     !.resp = on_answer(seen.method, NoneAnswer, seen.dnsq)]]

\* DOHApplication.resolve, for request r, up to the policy socket calls if
\* they are made, and up to the first suspension if not
resolve(r, seen, auth) ==
    /\ time_stamp' = r
    /\ IF IpcFor(auth, seen.dnsq) # {NoIpc}
       THEN req' = [req EXCEPT ![r] = [seen EXCEPT !.pc = "policy"]]
       ELSE resolve_continue(r, seen, policy_check(auth, seen.dnsq, NoIpc), r)

Finish(r, seen, resp) ==
    /\ req' = [req EXCEPT ![r] = [seen EXCEPT !.pc = "done", !.resp = resp]]
    /\ UNCHANGED time_stamp

\* doh1handler from line 59 on, decoding the body before the content type is compared
doh1handler_body_decode_first(r, seen, ct, body, fwd, auth) ==
    LET d    == dns_query_from_body(body, debug)
        seen1 == [seen EXCEPT !.ct = ct, !.body = body.len]
    IN  IF d.exc # ""
        THEN Finish(r, seen1, TextResponse(400, d.exc))
        ELSE IF ct # DOH_MEDIA_TYPE
        THEN Finish(r, seen1, TextResponse(415, "Unsupported content type"))
        ELSE Finish(r, [seen1 EXCEPT !.decoded = TRUE, !.dnsq = d.msg], InternalServerError)

\* doh1handler from line 59 on: content type, decoding, logging, resolve.
\* fwd: whether the request carries the header the log line reads.
doh1handler_body(r, seen, ct, body, fwd, auth) ==
    LET seen1 == [seen EXCEPT !.ct = ct, !.body = body.len]
    IN  IF ct # DOH_MEDIA_TYPE
        THEN Finish(r, seen1, TextResponse(415, "Unsupported content type"))
        ELSE LET d == dns_query_from_body(body, debug)
                 seen2 == [seen1 EXCEPT !.decoded = TRUE, !.dnsq = d.msg]
             IN  IF d.exc # ""
                 THEN Finish(r, seen1, TextResponse(400, d.exc))
                 ELSE IF ~fwd                      \* headers.getall: KeyError
                 THEN Finish(r, seen2, InternalServerError)
                 ELSE resolve(r, seen2, auth)

\* A request arrives: the router (get_app) and doh1handler up to the first
\* suspension or blocking call.  param, fwd, auth: what the request carries.
doh1handler(r, method, param, fwd, auth) ==
    /\ req[r].pc = "idle"
    /\ \A q \in DOMAIN req : q < r => req[q].pc # "idle"
    /\ ~Blocked
    /\ LET seen == [NoRequest EXCEPT !.method = method]
       IN  IF method \notin RoutedMethods
           THEN Finish(r, seen, TextResponse(405, "Method Not Allowed"))
           ELSE IF method \in {"GET", "HEAD"}
           THEN LET e == extract_ct_body(param)
                    seen0 == [seen EXCEPT !.param = param.t]
                IN  IF e.raised = "DOHParamsException"
                    THEN Finish(r, [seen0 EXCEPT !.body =
                                       IF param.t = "b64" THEN param.body.len ELSE "-"],
                                TextResponse(400, e.exc))
                    ELSE IF e.raised # ""
                    THEN Finish(r, seen0, InternalServerError)
                    ELSE doh1handler_body(r, seen0, e.ct, e.body, fwd, auth)
           ELSE IF method = "POST"
           THEN /\ req' = [req EXCEPT ![r] = [seen EXCEPT !.pc = "reading"]]
                /\ UNCHANGED time_stamp
           ELSE Finish(r, seen, TextResponse(501, "Not Implemented"))
    /\ UNCHANGED <<debug, policy_silent>>
    /\ UNCHANGED notdoh

\* doh1handler resumes when the POST body has been read
doh1handler_post(r, ct, body, fwd, auth) ==
    /\ req[r].pc = "reading"
    /\ ~Blocked
    /\ doh1handler_body(r, req[r], ct, body, fwd, auth)
    /\ UNCHANGED <<debug, policy_silent>>
    /\ UNCHANGED notdoh

\* the blocking calls on the policy socket return (lines 98-101): an
\* exception, or the bytes of recv(64).  No timeout is set on the socket, so
\* they return only if the policy server answers or the connection fails.
policy_return(r, ipc) ==
    /\ req[r].pc = "policy"
    /\ ~policy_silent
    /\ resolve_continue(r, req[r], policy_check("ok", req[r].dnsq, ipc), time_stamp)
    /\ UNCHANGED <<debug, time_stamp, policy_silent>>
    /\ UNCHANGED notdoh

\* resolve resumes when DNSClient.query returns
resolve_answer(r) ==
    /\ req[r].pc = "resolving"
    /\ ~Blocked
    /\ \E dnsr \in ResolverResults(req[r].dnsq) :
          req' = [req EXCEPT ![r] = [req[r] EXCEPT
                                     !.pc = "done", !.dnsr = dnsr,
                                     !.stamp = time_stamp,
                                     !.resp = on_answer(req[r].method, dnsr, req[r].dnsq)]]
    /\ UNCHANGED <<debug, time_stamp, policy_silent>>
    /\ UNCHANGED notdoh

(***************************************************************************)
(* Claims about the frontend                                               *)
(***************************************************************************)
\* C4 (as claimed): every GET, HEAD or POST whose DNS query bytes decode ends
\* with status 200, whatever its headers, its question section, the policy
\* outcome and the resolver outcome.
C4_DecodedRequestGets200 ==
    \A r \in Reqs :
        (req[r].pc = "done" /\ req[r].method \in {"GET", "HEAD", "POST"} /\ req[r].decoded)
            => req[r].resp.status = 200

\* The policy check of request r was attempted and did not yield the byte 0x01
PolicyFailedOrNotBlocked(r) ==
    \/ req[r].policy.t \in {"extract", "connect", "send", "recv"}
    \/ req[r].policy.t = "reply" /\ req[r].policy.data # <<1>>

\* C5: the policy check fails open: a failure to extract user or domain, to
\* connect, send or receive, or a reply other than the single byte 0x01, leaves
\* the request unfiltered and the query is forwarded to the resolver.
C5_PolicyFailsOpen ==
    \A r \in Reqs :
        PolicyFailedOrNotBlocked(r) =>
            /\ ~req[r].filtered
            /\ req[r].queried = 1
            /\ req[r].pc \in {"resolving", "done"}

\* the policy socket returned two bytes; the query went upstream and was answered
C5_Witness ==
    \E r \in Reqs :
        /\ req[r].policy = [t |-> "reply", data |-> <<1, 0>>]
        /\ req[r].queried = 1
        /\ req[r].pc = "done"
        /\ ~req[r].dnsr.none

\* the response on_answer synthesizes for query q
Synthesized(q) ==
    [id |-> q.id, question |-> q.question,
     answer |-> << [name |-> q.question[1], ttl |-> 300, rdtype |-> "A", rdata |-> "0.0.0.0"] >>]

\* C6: when the policy server answers 0x01 the resolver is never queried and
\* the response is the synthesized answer; the resolver is queried, once, only
\* for requests that were not blocked.
C6_BlockedSkipsResolver ==
    \A r \in Reqs :
        /\ (req[r].policy = [t |-> "reply", data |-> <<1>>]) =>
                /\ req[r].queried = 0
                /\ req[r].pc = "done"
                /\ req[r].resp.status = 200
                /\ req[r].method # "HEAD" => req[r].resp.body = to_wire(Synthesized(req[r].dnsq))
        /\ req[r].queried \in {0, 1}
        /\ req[r].queried = 1 => req[r].policy # [t |-> "reply", data |-> <<1>>]
        /\ (req[r].pc \in {"resolving", "done"} /\ req[r].policy.t # "-"
              /\ req[r].policy # [t |-> "reply", data |-> <<1>>]) => req[r].queried = 1

\* a GET was blocked by the policy server and answered without the resolver
C6_Witness ==
    \E r \in Reqs :
        /\ req[r].policy = [t |-> "reply", data |-> <<1>>]
        /\ req[r].method = "GET"
        /\ req[r].pc = "done"
        /\ req[r].queried = 0

\* C7: the cache-control header of a 200 response: blocked or no resolver
\* answer => synthesized body (query id and question, one A record 0.0.0.0 of
\* TTL 300) and max-age=300; real response with answers => max-age is the
\* minimum TTL of the answer records; real response without answers => no
\* header.  For HEAD the body is empty, status and headers are as for GET.
C7_CacheControl ==
    \A r \in Reqs :
        (req[r].pc = "done" /\ req[r].resp.status = 200) =>
            LET q      == req[r]
                answer == q.dnsr.msg.answer
            IN  /\ (q.filtered \/ q.dnsr.none) =>
                        /\ q.resp.cc = [has |-> TRUE, maxage |-> 300]
                        /\ q.method # "HEAD" => q.resp.body = to_wire(Synthesized(q.dnsq))
                /\ (~q.filtered /\ ~q.dnsr.none /\ answer # <<>>) =>
                        /\ q.resp.cc.has
                        /\ \A i \in 1..Len(answer) : q.resp.cc.maxage <= answer[i].ttl
                        /\ \E i \in 1..Len(answer) : q.resp.cc.maxage = answer[i].ttl
                        /\ q.method # "HEAD" => q.resp.body = to_wire(q.dnsr.msg)
                /\ (~q.filtered /\ ~q.dnsr.none /\ answer = <<>>) =>
                        /\ ~q.resp.cc.has
                        /\ q.method # "HEAD" => q.resp.body = to_wire(q.dnsr.msg)
                /\ q.method = "HEAD" => q.resp.body = EmptyBytes

\* a HEAD request got a real answer with TTLs 300 and 10: max-age=10, empty body
C7_Witness ==
    \E r \in Reqs :
        /\ req[r].pc = "done"
        /\ req[r].method = "HEAD"
        /\ req[r].resp.status = 200
        /\ ~req[r].dnsr.none
        /\ Len(req[r].dnsr.msg.answer) = 2
        /\ req[r].resp.cc = [has |-> TRUE, maxage |-> 10]

\* request r made no call to the policy server and none to the resolver
NoDownstream(r) ==
    /\ req[r].policy = NoPolicy
    /\ ~req[r].filtered
    /\ req[r].queried = 0
    /\ req[r].dnsr = NoneAnswer

\* C14 (as claimed): a request with a method other than GET, HEAD or POST is
\* answered 501, with no call to the policy server or the resolver.
C14_OtherMethodGets501 ==
    \A r \in Reqs :
        (req[r].pc = "done" /\ req[r].method \notin {"GET", "HEAD", "POST"}) =>
            /\ req[r].resp.status = 501
            /\ NoDownstream(r)

\* C15: a POST whose content type is absent or not the DOH media type is
\* answered 415, whatever its body, without decoding the body and without a
\* call to the policy server or the resolver; a GET or HEAD is never answered 415.
C15_ContentTypeBeforeDecoding ==
    \A r \in Reqs :
        /\ (req[r].pc = "done" /\ req[r].method = "POST" /\ req[r].ct # DOH_MEDIA_TYPE) =>
              /\ req[r].ct \in {"none", "text/plain"}
              /\ req[r].resp = TextResponse(415, "Unsupported content type")
              /\ ~req[r].decoded
              /\ NoDownstream(r)
        /\ (req[r].pc = "done" /\ req[r].method \in {"GET", "HEAD"}) =>
              req[r].resp.status # 415

\* a POST without a content type and with a body that is not a DNS message got 415
C15_Witness ==
    \E r \in Reqs :
        /\ req[r].pc = "done"
        /\ req[r].method = "POST"
        /\ req[r].ct = "none"
        /\ req[r].body = "bad"
        /\ req[r].resp.status = 415

\* the handler found the client input of request r malformed: the dns
\* parameter of a GET/HEAD missing, empty or not decodable, or bytes under the
\* accepted content type that are not a DNS message
MalformedParam(r) ==
    /\ req[r].method \in {"GET", "HEAD"}
    /\ \/ req[r].param \in {"missing", "invalid", "nonascii"}
       \/ req[r].param = "b64" /\ req[r].body = "empty"

MalformedBytes(r) ==
    /\ req[r].method \in {"GET", "HEAD", "POST"}
    /\ req[r].ct = DOH_MEDIA_TYPE
    /\ req[r].body \in {"bad", "empty"}

\* C16 (as claimed): malformed client input is answered 400 with a diagnostic
\* body, "Malformed DNS query" for bytes that do not parse when not in debug
\* mode, and no call is made to the policy server or the resolver.
C16_MalformedInputGets400 ==
    \A r \in Reqs :
        (req[r].pc = "done" /\ (MalformedParam(r) \/ MalformedBytes(r))) =>
            /\ req[r].resp.status = 400
            /\ req[r].resp.text # ""
            /\ (MalformedBytes(r) /\ ~debug) => req[r].resp.text = "Malformed DNS query"
            /\ NoDownstream(r)

InitFrontend ==
    /\ debug \in BOOLEAN
    /\ time_stamp = 0
    /\ req = [r \in Reqs |-> NoRequest]
    /\ policy_silent \in BOOLEAN

NextDoh ==
    \/ \E r \in Reqs, method \in Methods, param \in DnsParams, fwd \in BOOLEAN,
          auth \in AuthHeaders : doh1handler(r, method, param, fwd, auth)
    \/ \E r \in Reqs, ct \in ContentTypes, body \in Bodies, fwd \in BOOLEAN,
          auth \in AuthHeaders : doh1handler_post(r, ct, body, fwd, auth)
    \/ \E r \in Reqs, ipc \in IpcOutcomes : policy_return(r, ipc)
    \/ \E r \in Reqs : resolve_answer(r)

\* Concurrent well-formed requests: each is a GET or POST of the query for
\* "x." with the accepted content type and the forwarding header, with or
\* without credentials; the policy server, if it replies, replies one byte
ConcReqs == 1..MaxConc

GoodQuery == [id |-> 2, question |-> <<"x.">>, answer |-> <<>>]

OneByteReplies == { [err |-> "none", data |-> <<0>>], [err |-> "none", data |-> <<1>>] }

\* the steps the event loop can take for request q
FrontendStep(q) ==
    \/ \E method \in {"GET", "POST"}, auth \in {"none", "ok"} :
          doh1handler(q, method, [t |-> "b64", body |-> to_wire(GoodQuery)], TRUE, auth)
    \/ \E auth \in {"none", "ok"} :
          doh1handler_post(q, DOH_MEDIA_TYPE, to_wire(GoodQuery), TRUE, auth)
    \/ resolve_answer(q)

InitFrontendConc ==
    /\ debug = FALSE
    /\ time_stamp = 0
    /\ req = [r \in ConcReqs |-> NoRequest]
    /\ policy_silent \in BOOLEAN

NextDohConc ==
    \/ \E r \in ConcReqs, method \in {"GET", "POST"}, auth \in {"none", "ok"} :
          doh1handler(r, method, [t |-> "b64", body |-> to_wire(GoodQuery)], TRUE, auth)
    \/ \E r \in ConcReqs, auth \in {"none", "ok"} :
          doh1handler_post(r, DOH_MEDIA_TYPE, to_wire(GoodQuery), TRUE, auth)
    \/ \E r \in ConcReqs, ipc \in OneByteReplies : policy_return(r, ipc)
    \/ \E r \in ConcReqs : resolve_answer(r)

\* request q is at a point where the event loop has something to do for it:
\* it is the next to arrive, its body has arrived, or the resolver has answered
Runnable(q) ==
    \/ req[q].pc \in {"reading", "resolving"}
    \/ req[q].pc = "idle" /\ \A p \in ConcReqs : p < q => req[p].pc # "idle"

\* C17 (as claimed): while request r waits for the policy server, the event
\* loop can still take a step for any other request that is runnable.
C17_PolicyWaitDoesNotBlock ==
    \A r \in ConcReqs, q \in ConcReqs :
        (r # q /\ req[r].pc = "policy" /\ Runnable(q)) => ENABLED FrontendStep(q)

\* C18 (as claimed): every request whose policy check has begun is eventually
\* answered, also when the policy server takes the connection and never replies.
C18_AuthenticatedEventuallyAnswered ==
    \A r \in Reqs : (req[r].pc = "policy") ~> (req[r].pc = "done")

\* C24 (as claimed): under any interleaving of concurrent requests, the
\* latency logged with a request's answer is measured from the start time that
\* this same request wrote when its resolution began, never from the start
\* time of another request that began while this one waited for the resolver.
C24_LatencyFromOwnStart ==
    \A r \in ConcReqs :
        (req[r].pc = "done" /\ req[r].resp.status = 200) => req[r].stamp = r

(***************************************************************************)
(* DNS-over-TCP framing (utils.handle_dns_tcp_data)                        *)
(***************************************************************************)
Bytes == {0, 1, 2}

\* struct.unpack("!H", data[0:2])[0]
unpack_H(data) == data[1] * 256 + data[2]

\* struct.pack("!H", n)
pack_H(n) == <<n \div 256, n % 256>>

\* dns.message.from_wire on the bytes of a message: the header, then the rest
from_wire(wire) == [id |-> Head(wire), rest |-> Tail(wire)]

\* data[a:b] for 0 <= a <= b, b clipped to len(data)
Slice(data, a, b) == SubSeq(data, a + 1, IF b < Len(data) THEN b ELSE Len(data))

\* the loop with the test msglen + 2 < len(data)
RECURSIVE tcp_loop_strict(_, _, _)
tcp_loop_strict(data, msglen, cb) ==
    IF msglen + 2 < Len(data)
    THEN LET dnsq == from_wire(Slice(data, 2, msglen + 2))
             rest == Slice(data, msglen + 2, Len(data))
         IN  IF Len(rest) < 2
             THEN [cb |-> Append(cb, dnsq), rest |-> rest]
             ELSE tcp_loop_strict(rest, unpack_H(rest), Append(cb, dnsq))
    ELSE [cb |-> cb, rest |-> data]

handle_dns_tcp_data_strict(data) ==
    IF Len(data) < 2
    THEN [cb |-> <<>>, rest |-> data]
    ELSE tcp_loop_strict(data, unpack_H(data), <<>>)

\* lines 368-375: the while loop; cb is the sequence of callback calls so far
RECURSIVE tcp_loop(_, _, _)
tcp_loop(data, msglen, cb) ==
    IF msglen + 2 <= Len(data)
    THEN LET dnsq == from_wire(Slice(data, 2, msglen + 2))
             rest == Slice(data, msglen + 2, Len(data))
         IN  IF Len(rest) < 2
             THEN [cb |-> Append(cb, dnsq), rest |-> rest]
             ELSE tcp_loop(rest, unpack_H(rest), Append(cb, dnsq))
    ELSE [cb |-> cb, rest |-> data]

\* utils.handle_dns_tcp_data(data, cb): [cb |-> the messages handed to the
\* callback, in order, rest |-> the bytes returned]
handle_dns_tcp_data(data) ==
    IF Len(data) < 2
    THEN [cb |-> <<>>, rest |-> data]
    ELSE tcp_loop(data, unpack_H(data), <<>>)

\* the messages a peer may send, and the byte stream that carries them
TcpMessages == SeqsUpTo(Bytes, MaxMsgLen) \ {<<>>}

RECURSIVE Frames(_)
Frames(msgs) ==
    IF msgs = <<>> THEN <<>>
    ELSE pack_H(Len(Head(msgs))) \o Head(msgs) \o Frames(Tail(msgs))

InitTcp ==
    /\ tcp_msgs \in SeqsUpTo(TcpMessages, MaxMsgs)
    /\ tcp_stream = Frames(tcp_msgs)
    /\ tcp_fed = <<>>
    /\ tcp_buf = <<>>
    /\ tcp_delivered = <<>>

\* the transport delivers the next k bytes; the caller prepends what it kept
data_received(k) ==
    /\ k \in 1..Len(tcp_stream)
    /\ LET chunk == SubSeq(tcp_stream, 1, k)
           r     == handle_dns_tcp_data(tcp_buf \o chunk)
       IN  /\ tcp_delivered' = tcp_delivered \o r.cb
           /\ tcp_buf' = r.rest
           /\ tcp_fed' = tcp_fed \o chunk
           /\ tcp_stream' = SubSeq(tcp_stream, k + 1, Len(tcp_stream))
    /\ UNCHANGED tcp_msgs
    /\ UNCHANGED nottcp

NextTcp == \E k \in 1..(2 + MaxMsgLen) * MaxMsgs : data_received(k)

\* the number of bytes of the first n frames of msgs
RECURSIVE FrameBytes(_, _)
FrameBytes(msgs, n) == IF n = 0 THEN 0 ELSE FrameBytes(msgs, n - 1) + 2 + Len(msgs[n])

\* the number of frames of msgs that lie wholly within the first len bytes
Complete(msgs, len) == Max({n \in 0..Len(msgs) : FrameBytes(msgs, n) <= len})

\* C10: for a stream of length-prefixed messages cut into chunks in any way,
\* feeding the chunks with the returned remainder prepended hands the callback
\* the same messages in the same order as feeding the received bytes at once,
\* namely the messages whose frames are complete, and the remainder is exactly
\* the unconsumed tail: empty or a partial frame.
C10_ChunkedEqualsWhole ==
    LET whole == handle_dns_tcp_data(tcp_fed)
        n     == Complete(tcp_msgs, Len(tcp_fed))
    IN  /\ tcp_delivered = whole.cb
        /\ tcp_buf = whole.rest
        /\ tcp_delivered = [i \in 1..n |-> [id |-> tcp_msgs[i][1], rest |-> Tail(tcp_msgs[i])]]
        /\ tcp_buf = SubSeq(tcp_fed, FrameBytes(tcp_msgs, n) + 1, Len(tcp_fed))
        /\ tcp_stream = <<>> => (tcp_buf = <<>> /\ Len(tcp_delivered) = Len(tcp_msgs))
        /\ (n < Len(tcp_msgs)) => Len(tcp_buf) < 2 + Len(tcp_msgs[n + 1])

\* one message was delivered and the read ended inside the next length prefix
C10_Witness ==
    /\ Len(tcp_msgs) = 2
    /\ Len(tcp_delivered) = 1
    /\ Len(tcp_buf) = 1
    /\ tcp_stream # <<>>

(***************************************************************************)
(* The base64url codec (utils.py).  Bytes are 0..255 and the encoding is   *)
(* computed on 24-bit groups, as base64.urlsafe_b64encode does.            *)
(***************************************************************************)
\* the URL-safe alphabet of the base64 module: value i is B64Alphabet[i + 1]
B64Alphabet ==
    << "A","B","C","D","E","F","G","H","I","J","K","L","M","N","O","P",
       "Q","R","S","T","U","V","W","X","Y","Z","a","b","c","d","e","f",
       "g","h","i","j","k","l","m","n","o","p","q","r","s","t","u","v",
       "w","x","y","z","0","1","2","3","4","5","6","7","8","9","-","_" >>

B64Char(v) == B64Alphabet[v + 1]
B64Value(c) == (CHOOSE i \in DOMAIN B64Alphabet : B64Alphabet[i] = c) - 1
IsB64Char(c) == c \in Range(B64Alphabet)

\* the byte values the codec is exercised with: all bits clear, all bits set,
\* and values whose bits straddle the 6-bit boundaries
B64Bytes == {0, 1, 63, 64, 251, 255}

\* base64.urlsafe_b64encode: four characters per three bytes, "=" padding
RECURSIVE urlsafe_b64encode(_)
urlsafe_b64encode(q) ==
    IF Len(q) = 0 THEN <<>>
    ELSE IF Len(q) = 1 THEN
        LET n == q[1] * 16
        IN  <<B64Char(n \div 64), B64Char(n % 64), "=", "=">>
    ELSE IF Len(q) = 2 THEN
        LET n == (q[1] * 256 + q[2]) * 4
        IN  <<B64Char(n \div 4096), B64Char((n \div 64) % 64), B64Char(n % 64), "=">>
    ELSE
        LET n == q[1] * 65536 + q[2] * 256 + q[3]
        IN  <<B64Char(n \div 262144), B64Char((n \div 4096) % 64),
              B64Char((n \div 64) % 64), B64Char(n % 64)>>
            \o urlsafe_b64encode(SubSeq(q, 4, Len(q)))

\* str.rstrip("=")
RECURSIVE rstrip_eq(_)
rstrip_eq(s) ==
    IF s # <<>> /\ s[Len(s)] = "=" THEN rstrip_eq(SubSeq(s, 1, Len(s) - 1)) ELSE s

\* utils.doh_b64_encode
doh_b64_encode(q) == rstrip_eq(urlsafe_b64encode(q))

\* the bytes of a run of alphabet characters, four characters per three bytes;
\* a final run of two or three characters gives one or two bytes
RECURSIVE b64_bytes(_)
b64_bytes(d) ==
    IF Len(d) < 2 THEN <<>>
    ELSE IF Len(d) = 2 THEN
        <<(B64Value(d[1]) * 64 + B64Value(d[2])) \div 16>>
    ELSE IF Len(d) = 3 THEN
        LET n == (B64Value(d[1]) * 4096 + B64Value(d[2]) * 64 + B64Value(d[3])) \div 4
        IN  <<n \div 256, n % 256>>
    ELSE
        LET n == B64Value(d[1]) * 262144 + B64Value(d[2]) * 4096
                 + B64Value(d[3]) * 64 + B64Value(d[4])
        IN  <<n \div 65536, (n \div 256) % 256, n % 256>> \o b64_bytes(SubSeq(d, 5, Len(d)))

\* base64.urlsafe_b64decode of alphabet characters followed by "=" padding:
\* binascii.Error unless the final group is completed by the padding
urlsafe_b64decode(s) ==
    LET d    == SelectSeq(s, IsB64Char)
        npad == Len(s) - Len(d)
        r    == Len(d) % 4
    IN  IF r = 1 \/ (r = 2 /\ npad < 2) \/ (r = 3 /\ npad < 1)
        THEN [err |-> TRUE, bytes |-> <<>>]
        ELSE [err |-> FALSE, bytes |-> b64_bytes(d)]

\* "=" * n
Padding(n) == [i \in 1..n |-> "="]

\* decoding what was given, with no padding restored
doh_b64_decode_unpadded(s) == urlsafe_b64decode(s)

\* utils.doh_b64_decode
doh_b64_decode(s) == urlsafe_b64decode(s \o Padding((-Len(s)) % 4))

NoDecoded == [err |-> FALSE, bytes |-> <<>>]

InitB64 ==
    /\ b64_pc = "start"
    /\ b64_q \in SeqsUpTo(B64Bytes, MaxB64Len)
    /\ b64_s = <<>>
    /\ b64_out = NoDecoded

\* s = doh_b64_encode(q)
b64_encode ==
    /\ b64_pc = "start"
    /\ b64_s' = doh_b64_encode(b64_q)
    /\ b64_pc' = "encoded"
    /\ UNCHANGED <<b64_q, b64_out>>
    /\ UNCHANGED notb64

\* doh_b64_decode(s)
b64_decode ==
    /\ b64_pc = "encoded"
    /\ b64_out' = doh_b64_decode(b64_s)
    /\ b64_pc' = "decoded"
    /\ UNCHANGED <<b64_q, b64_s>>
    /\ UNCHANGED notb64

NextB64 ==
    \/ b64_encode
    \/ b64_decode

\* C11: the encoding of a byte string has no "=" in it, and decoding the
\* encoding gives the byte string back
C11_RoundTrip ==
    /\ b64_pc \in {"encoded", "decoded"} => \A i \in DOMAIN b64_s : b64_s[i] # "="
    /\ b64_pc = "decoded" => b64_out = [err |-> FALSE, bytes |-> b64_q]

\* a byte string whose encoding needed padding was decoded
C11_Witness ==
    /\ b64_pc = "decoded"
    /\ Len(b64_q) = 2
    /\ Len(b64_s) = 3
    /\ b64_out.bytes = <<251, 255>>

(***************************************************************************)
(* EDNS Client Subnet injection (utils.set_dns_ecs).  An address is its    *)
(* version and its groups: four 8-bit groups for IPv4, eight 16-bit groups *)
(* for IPv6, so that masking is computed group by group.                   *)
(***************************************************************************)
IPv4(a, b, c, e) == [version |-> 4, groups |-> <<a, b, c, e>>]
IPv6(g) == [version |-> 6, groups |-> g]

\* bits in one group of an address of this version
GroupBits(version) == IF version = 6 THEN 16 ELSE 8

RECURSIVE Pow2(_)
Pow2(n) == IF n = 0 THEN 1 ELSE 2 * Pow2(n - 1)

\* the client addresses set_dns_ecs is given: 198.51.100.77, 10.255.255.255,
\* 2001:db8::1 and 2001:db8:0:12ab:ffff::1
ClientIps ==
    { IPv4(198, 51, 100, 77), IPv4(10, 255, 255, 255),
      IPv6(<<8193, 3512, 0, 0, 0, 0, 0, 1>>),
      IPv6(<<8193, 3512, 0, 4779, 65535, 0, 0, 1>>) }

\* EDNS options: dns.edns.ECSOption(address, srclen), or another option type
ECSOption(address, srclen) == [otype |-> "ECS", address |-> address, srclen |-> srclen]
OtherOption(t) == [otype |-> t, address |-> <<>>, srclen |-> 0]

\* the options a query may arrive with; the ECS option is 192.0.2.0/24
QueryOptions ==
    { OtherOption("NSID"), OtherOption("COOKIE"), ECSOption(<<192, 0, 2, 0>>, 24) }

\* ip_network(ip).supernet(new_prefix=bits).network_address with no bit cleared
network_address_unmasked(ip, bits) == ip.groups

\* ip_network(ip).supernet(new_prefix=bits).network_address: the address
\* and-ed with the netmask of the prefix
network_address(ip, bits) ==
    LET w == GroupBits(ip.version)
        kept(i) == Max({0, Min({w, bits - (i - 1) * w})})
        low(i)  == Pow2(w - kept(i))
    IN  [i \in DOMAIN ip.groups |-> (ip.groups[i] \div low(i)) * low(i)]

\* the scan of set_dns_ecs: whether some option is an ECSOption
has_ecs(options) == \E i \in DOMAIN options : options[i].otype = "ECS"

\* set_dns_ecs without the scan for an existing ECS option
set_dns_ecs_no_scan(options, ip) ==
    LET ip_supernet_bits == IF ip.version = 6 THEN 56 ELSE 24
    IN  [ret |-> TRUE,
         options |-> Append(options,
                        ECSOption(network_address(ip, ip_supernet_bits), ip_supernet_bits))]

\* utils.set_dns_ecs: [ret, options], options being dnsq.options afterwards
set_dns_ecs(options, ip) ==
    IF has_ecs(options) THEN [ret |-> FALSE, options |-> options]
    ELSE LET ip_supernet_bits == IF ip.version = 6 THEN 56 ELSE 24
         IN  [ret |-> TRUE,
              options |-> Append(options,
                             ECSOption(network_address(ip, ip_supernet_bits),
                                       ip_supernet_bits))]

InitEcs ==
    /\ ecs_pc = "ready"
    /\ ecs_ip \in ClientIps
    /\ ecs_options \in SeqsUpTo(QueryOptions, MaxOptions)
    /\ ecs_calls = <<>>

\* set_dns_ecs(dnsq, ip)
call_set_dns_ecs ==
    /\ ecs_pc = "ready"
    /\ Len(ecs_calls) < MaxEcsCalls
    /\ LET r == set_dns_ecs(ecs_options, ecs_ip)
       IN  /\ ecs_options' = r.options
           /\ ecs_calls' = Append(ecs_calls, [before |-> ecs_options, ret |-> r.ret])
    /\ UNCHANGED <<ecs_pc, ecs_ip>>
    /\ UNCHANGED notecs

NextEcs == call_set_dns_ecs

\* the options after call k
EcsAfter(k) == IF k = Len(ecs_calls) THEN ecs_options ELSE ecs_calls[k + 1].before

NumEcs(options) == Cardinality({i \in DOMAIN options : options[i].otype = "ECS"})

\* C12: a call on a query that carries an ECS option returns False and leaves
\* the options as they were; a call on a query without one returns True and
\* leaves the old options, in order, followed by exactly one ECS option; a
\* call after any call returns False and changes nothing
C12_NeverOverwritesIdempotent ==
    \A k \in DOMAIN ecs_calls :
        LET before == ecs_calls[k].before
            after  == EcsAfter(k)
        IN  /\ NumEcs(before) > 0 => (~ecs_calls[k].ret /\ after = before)
            /\ NumEcs(before) = 0 =>
                  /\ ecs_calls[k].ret
                  /\ Len(after) = Len(before) + 1
                  /\ SubSeq(after, 1, Len(before)) = before
                  /\ after[Len(after)].otype = "ECS"
                  /\ NumEcs(after) = 1
            /\ k > 1 => (~ecs_calls[k].ret /\ after = before)

\* a first call added the option after two others, and a second call was made
C12_Witness ==
    /\ Len(ecs_calls) = 2
    /\ ecs_calls[1].ret
    /\ Len(ecs_calls[1].before) = 2
    /\ ~ecs_calls[2].ret
    /\ Len(ecs_options) = 3

\* bit k (1 is the most significant) of an address given by its groups
AddrBit(groups, w, k) ==
    LET i == ((k - 1) \div w) + 1
        j == w - ((k - 1) % w) - 1
    IN  (groups[i] \div Pow2(j)) % 2

\* C13: the option added for a client address has prefix length 24 (IPv4) or
\* 56 (IPv6); its address has the client's bits within the prefix and zero
\* beyond it; 198.51.100.77 gives 198.51.100.0/24, 2001:db8::1 gives 2001:db8::/56
C13_MaskedPrefix ==
    (Len(ecs_calls) > 0 /\ ecs_calls[1].ret) =>
        LET opt == EcsAfter(1)[Len(EcsAfter(1))]
            w   == GroupBits(ecs_ip.version)
            n   == Len(ecs_ip.groups)
        IN  /\ opt.srclen = IF ecs_ip.version = 4 THEN 24 ELSE 56
            /\ Len(opt.address) = n
            /\ \A k \in 1..(n * w) :
                  AddrBit(opt.address, w, k) =
                      IF k <= opt.srclen THEN AddrBit(ecs_ip.groups, w, k) ELSE 0
            /\ \A i \in 1..n : opt.address[i] \in 0..(Pow2(w) - 1)
            /\ ecs_ip = IPv4(198, 51, 100, 77) => opt.address = <<198, 51, 100, 0>>
            /\ ecs_ip = IPv6(<<8193, 3512, 0, 0, 0, 0, 0, 1>>) =>
                  opt.address = <<8193, 3512, 0, 0, 0, 0, 0, 0>>

\* an option was added for an IPv6 address with host bits inside the fourth group
C13_Witness ==
    /\ Len(ecs_calls) > 0
    /\ ecs_calls[1].ret
    /\ ecs_ip = IPv6(<<8193, 3512, 0, 4779, 65535, 0, 0, 1>>)
    /\ EcsAfter(1)[Len(EcsAfter(1))].address = <<8193, 3512, 0, 4608, 0, 0, 0, 0>>

(***************************************************************************)
(* Specifications.  Each runs one component; the others stay as they are   *)
(* before they are started.                                                *)
(***************************************************************************)
\* the policy server process before it is started
IdleServer ==
    /\ fs = [f \in Files |-> NoFile]
    /\ blocklist = CIEmpty
    /\ fileslist = CIEmpty
    /\ srv_pc = "starting"
    /\ rl_pc = "idle"
    /\ rl_todo = <<>>
    /\ newfileslist = CIEmpty
    /\ conn = [c \in Conns |-> [open |-> FALSE, nread |-> 0, nsent |-> 0]]
    /\ pending = [c \in Conns |-> NoPending]
    /\ lastreq = NoReq
    /\ lastRead = [f \in Files |-> 0]
    /\ due = {}
    /\ missing = {}
    /\ didOpen = FALSE
    /\ nwrites = 0
    /\ nreloads = 0

\* the frontend before any request
IdleDoh ==
    /\ debug = FALSE
    /\ time_stamp = 0
    /\ req = [r \in Reqs |-> NoRequest]
    /\ policy_silent = FALSE

\* no TCP stream
IdleTcp ==
    /\ tcp_msgs = <<>>
    /\ tcp_stream = <<>>
    /\ tcp_fed = <<>>
    /\ tcp_buf = <<>>
    /\ tcp_delivered = <<>>

\* the codec not in use
IdleB64 ==
    /\ b64_pc = "idle"
    /\ b64_q = <<>>
    /\ b64_s = <<>>
    /\ b64_out = NoDecoded

\* no query given to set_dns_ecs
IdleEcs ==
    /\ ecs_pc = "idle"
    /\ ecs_ip = IPv4(0, 0, 0, 0)
    /\ ecs_options = <<>>
    /\ ecs_calls = <<>>

\* The policy server: load, reloads, file writes, connections
Init == InitServer /\ IdleDoh /\ IdleTcp /\ IdleB64 /\ IdleEcs

Next ==
    \/ read_files
    \/ \E f \in Files, c \in Contents, m \in 1..MaxMtime : FileWrite(f, c, m)
    \/ read_on_signal_begin
    \/ read_on_signal_file
    \/ \E c \in Conns : listen(c)
    \/ \E c \in Conns, data \in Payloads : handle_req(c, data)

Spec == Init /\ [][Next]_vars

\* The policy server with two or more connection threads
InitThreads == InitServerThreads /\ IdleDoh /\ IdleTcp /\ IdleB64 /\ IdleEcs

SpecThreads == InitThreads /\ [][NextThreads]_vars

\* The policy server and a directory that changes under it
InitFiles == InitServerFiles /\ IdleDoh /\ IdleTcp /\ IdleB64 /\ IdleEcs

SpecFiles == InitFiles /\ [][NextFiles]_vars

\* ... with its scheduling: the initial load and a signal handler that has
\* begun run on; nobody is obliged to write files, send signals or connect
FairFiles == WF_vars(read_files) /\ WF_vars(read_on_signal_file)

SpecFilesLive == InitFiles /\ [][NextFiles]_vars /\ FairFiles

\* The frontend: the policy server is seen through what the policy socket returns
InitDoh == InitFrontend /\ IdleServer /\ IdleTcp /\ IdleB64 /\ IdleEcs

SpecDoh == InitDoh /\ [][NextDoh]_vars

\* The frontend with its scheduling: the event loop runs every callback that is
\* ready (a body that has arrived, a resolver result), and a blocking socket
\* call returns once the peer has replied or the connection has failed.
\* Clients are not obliged to send requests.
FairDoh ==
    \A r \in Reqs :
        /\ WF_vars(\E ct \in ContentTypes, body \in Bodies, fwd \in BOOLEAN, auth \in AuthHeaders :
                      doh1handler_post(r, ct, body, fwd, auth))
        /\ WF_vars(\E ipc \in IpcOutcomes : policy_return(r, ipc))
        /\ WF_vars(resolve_answer(r))

SpecDohLive == InitDoh /\ [][NextDoh]_vars /\ FairDoh

\* The frontend serving several well-formed requests at once
InitDohConc == InitFrontendConc /\ IdleServer /\ IdleTcp /\ IdleB64 /\ IdleEcs

SpecDohConc == InitDohConc /\ [][NextDohConc]_vars

\* The TCP framer fed a stream of framed messages in chunks
InitTcpSpec == InitTcp /\ IdleServer /\ IdleDoh /\ IdleB64 /\ IdleEcs

SpecTcp == InitTcpSpec /\ [][NextTcp]_vars

\* The base64url codec applied to a byte string and to its encoding
InitB64Spec == InitB64 /\ IdleServer /\ IdleDoh /\ IdleTcp /\ IdleEcs

SpecB64 == InitB64Spec /\ [][NextB64]_vars

\* set_dns_ecs called on a query, and called again on the result
InitEcsSpec == InitEcs /\ IdleServer /\ IdleDoh /\ IdleTcp /\ IdleB64

SpecEcs == InitEcsSpec /\ [][NextEcs]_vars

====
